---- MODULE Spec2Model ----
(***************************************************************************)
(* A model of the NativeIFC core (ifc_tools.py): the entity filter, the    *)
(* tree materializer, the attribute projector and the shape / coin cache   *)
(* with the geometry pipeline.                                             *)
(*                                                                         *)
(* The module holds seven specifications over one set of variables:         *)
(*   SpecFilter  filter_elements as a pure function of drawn inputs        *)
(*   SpecTree    create_document / create_children / can_expand            *)
(*   SpecAttr    get_elem_attribs / add_properties on one object           *)
(*   SpecGeom    get_shape / get_coin / set_geometry                       *)
(*   SpecSave    save_ifc / get_ifcfile on a document that is edited       *)
(*   SpecCold    get_shape / get_coin with a handle no object references   *)
(*   SpecRecur   create_children(recursive=True) one call frame at a time  *)
(*               (SpecRecurLive: the same, a running call keeps running)   *)
(***************************************************************************)
EXTENDS Naturals, Sequences, FiniteSets, TLC

VARIABLES
    ifc,      \* the opened source graph (the ifcfile handle's content)
    objs,     \* the document: sequence of DocumentObjects, in creation order
    proxy,    \* the project object's Proxy (file handle, ifccache), FreeCAD.GuiUp
    args,     \* inputs drawn for a pure function
    last,     \* the last operation: its inputs, outcome and outputs
    ncalls,   \* number of operations performed so far
    disk      \* the files on disk: path -> source graph stored there

vars == <<ifc, objs, proxy, args, last, ncalls, disk>>

(***************************************************************************)
(* Bounds of the model.                                                    *)
(***************************************************************************)
MaxElems == 2      \* longest entity list handed to a function
MaxCalls == 3      \* operations per behaviour
MaxAttrs == 2      \* declared attributes of a projected entity
MaxProjections == 2 \* projections onto the same object
MaxGeomCalls == 2  \* geometry requests per behaviour
MaxSaveCalls == 3  \* edits, reloads and saves per behaviour
MaxColdCalls == 3  \* geometry requests per behaviour, separate handle included
MaxRecurCalls == 2  \* recursive expansions per behaviour, followed frame by frame
RecursionLimit == 10  \* call frames the interpreter allows (1000 in CPython), scaled

(***************************************************************************)
(* Sequence helpers.                                                       *)
(***************************************************************************)
Range(s) == {s[i] : i \in DOMAIN s}

InSeq(x, s) == \E i \in DOMAIN s : s[i] = x

NoDup(s) == \A i, j \in DOMAIN s : s[i] = s[j] => i = j

\* the elements of s that are in S, in the order of s
RECURSIVE KeepIn(_, _)
KeepIn(s, S) ==
    IF s = <<>> THEN <<>>
    ELSE (IF Head(s) \in S THEN <<Head(s)>> ELSE <<>>) \o KeepIn(Tail(s), S)

\* all sequences over S of length 0..n
SeqsUpTo(S, n) == UNION {[1..k -> S] : k \in 0..n}

(***************************************************************************)
(* Source entities.  An entity has a StepId and an IFC class; is_a is      *)
(* true of the class and of all its supertypes.                            *)
(***************************************************************************)
Ents == 1..10

Supertypes(t) ==
    CASE t = "IfcProject" -> {"IfcProject", "IfcContext", "IfcObjectDefinition", "IfcRoot"}
      [] t = "IfcSite" -> {"IfcSite", "IfcSpatialStructureElement", "IfcSpatialElement",
                           "IfcProduct", "IfcObject", "IfcObjectDefinition", "IfcRoot"}
      [] t = "IfcBuilding" -> {"IfcBuilding", "IfcSpatialStructureElement", "IfcSpatialElement",
                               "IfcProduct", "IfcObject", "IfcObjectDefinition", "IfcRoot"}
      [] t = "IfcSpace" -> {"IfcSpace", "IfcSpatialStructureElement", "IfcSpatialElement",
                            "IfcProduct", "IfcObject", "IfcObjectDefinition", "IfcRoot"}
      [] t = "IfcWall" -> {"IfcWall", "IfcBuildingElement", "IfcElement",
                           "IfcProduct", "IfcObject", "IfcObjectDefinition", "IfcRoot"}
      [] t = "IfcWindow" -> {"IfcWindow", "IfcBuildingElement", "IfcElement",
                             "IfcProduct", "IfcObject", "IfcObjectDefinition", "IfcRoot"}
      [] t = "IfcBuildingElementPart" ->
                          {"IfcBuildingElementPart", "IfcElementComponent", "IfcElement",
                           "IfcProduct", "IfcObject", "IfcObjectDefinition", "IfcRoot"}
      [] t = "IfcOpeningElement" ->
                          {"IfcOpeningElement", "IfcFeatureElementSubtraction",
                           "IfcFeatureElement", "IfcElement",
                           "IfcProduct", "IfcObject", "IfcObjectDefinition", "IfcRoot"}
      [] t = "IfcFurniture" -> {"IfcFurniture", "IfcFurnishingElement", "IfcElement",
                                "IfcProduct", "IfcObject", "IfcObjectDefinition", "IfcRoot"}
      [] t = "IfcAnnotation" -> {"IfcAnnotation",
                                 "IfcProduct", "IfcObject", "IfcObjectDefinition", "IfcRoot"}
      [] OTHER -> {t}

\* the class of each StepId, the same in every source graph of the model
EntType(e) ==
    CASE e = 1 -> "IfcProject"
      [] e = 2 -> "IfcSite"
      [] e = 3 -> "IfcBuilding"
      [] e = 4 -> "IfcWall"
      [] e = 5 -> "IfcOpeningElement"
      [] e = 6 -> "IfcWindow"
      [] e = 7 -> "IfcSpace"
      [] e = 8 -> "IfcFurniture"
      [] e = 9 -> "IfcBuildingElementPart"
      [] e = 10 -> "IfcAnnotation"

is_a(e, t) == t \in Supertypes(EntType(e))

\* a relation given on some entities, empty elsewhere
Rel(f) == [e \in Ents |-> IF e \in DOMAIN f THEN f[e] ELSE <<>>]

(***************************************************************************)
(* Source graphs.  ents: the entities of the file; the four inverse        *)
(* attributes with their relationships flattened to the related entities;  *)
(* Representation: the entities with an own representation.                *)
(***************************************************************************)
\* project > site > building, the building spatially contains one wall
GraphScenario ==
    [ents |-> {1, 2, 3, 4},
     IsDecomposedBy |-> Rel(1 :> <<2>> @@ 2 :> <<3>>),
     ContainsElements |-> Rel(3 :> <<4>>),
     HasOpenings |-> Rel(<<>>),
     HasFillings |-> Rel(<<>>),
     Representation |-> {4}]

\* the wall is reached twice from the building (aggregated and contained),
\* the building is related to the site by a containment relationship only
GraphMultiEdge ==
    [ents |-> {1, 2, 3, 4},
     IsDecomposedBy |-> Rel(1 :> <<2>> @@ 3 :> <<4>>),
     ContainsElements |-> Rel(2 :> <<3>> @@ 3 :> <<4, 4>>),
     HasOpenings |-> Rel(<<>>),
     HasFillings |-> Rel(<<>>),
     Representation |-> {4}]

\* a building with a space, a wall with an opening filled by a window, a
\* wall assembled from a part, furniture, an annotation; the site has an own
\* representation
GraphFull ==
    [ents |-> 1..10,
     IsDecomposedBy |-> Rel(1 :> <<2>> @@ 2 :> <<3>> @@ 3 :> <<7>> @@ 4 :> <<9>>),
     ContainsElements |-> Rel(3 :> <<4, 6, 8, 10>>),
     HasOpenings |-> Rel(4 :> <<5>>),
     HasFillings |-> Rel(5 :> <<6>>),
     Representation |-> {2, 4, 5, 6, 8, 9, 10}]

\* the building is aggregated by the project and by the site, the wall is
\* contained in the site and in the building
GraphShared ==
    [ents |-> {1, 2, 3, 4},
     IsDecomposedBy |-> Rel(1 :> <<3, 2>> @@ 2 :> <<3>>),
     ContainsElements |-> Rel(2 :> <<4>> @@ 3 :> <<4>>),
     HasOpenings |-> Rel(<<>>),
     HasFillings |-> Rel(<<>>),
     Representation |-> {4}]

\* a building with a wall and a window, the wall with an opening that the
\* window fills; wall, opening and window have an own representation
GraphOpening ==
    [ents |-> {1, 3, 4, 5, 6},
     IsDecomposedBy |-> Rel(1 :> <<3>>),
     ContainsElements |-> Rel(3 :> <<4, 6>>),
     HasOpenings |-> Rel(4 :> <<5>>),
     HasFillings |-> Rel(5 :> <<6>>),
     Representation |-> {4, 5, 6}]

Graphs == {GraphScenario, GraphMultiEdge, GraphFull, GraphShared}

NoGraph ==
    [ents |-> {},
     IsDecomposedBy |-> Rel(<<>>),
     ContainsElements |-> Rel(<<>>),
     HasOpenings |-> Rel(<<>>),
     HasFillings |-> Rel(<<>>),
     Representation |-> {}]

\* ifcfile.by_type(t): the entities of class t or a subtype, in file order
RECURSIVE by_type_from(_, _, _)
by_type_from(g, t, e) ==
    IF e \notin Ents THEN <<>>
    ELSE (IF e \in g.ents /\ is_a(e, t) THEN <<e>> ELSE <<>>) \o by_type_from(g, t, e + 1)

by_type(g, t) == by_type_from(g, t, 1)

\* ifcopenshell.util.element.get_decomposition: a stack of entities to visit,
\* the contained and the aggregated entities of each appended to the result
RECURSIVE get_decomposition_loop(_, _, _)
get_decomposition_loop(g, queue, results) ==
    IF queue = <<>> THEN results
    ELSE LET element == queue[Len(queue)]
             rest == SubSeq(queue, 1, Len(queue) - 1)
             found == g.ContainsElements[element] \o g.IsDecomposedBy[element]
         IN  get_decomposition_loop(g, rest \o found, results \o found)

get_decomposition(g, element) == get_decomposition_loop(g, <<element>>, <<>>)

(***************************************************************************)
(* Entity filter.                                                          *)
(***************************************************************************)
has_representation(g, element) == element \in g.Representation

\* the single-entity expansion of filter_elements
expand_elements(g, elements, expand) ==
    IF expand /\ Len(elements) = 1 /\ ~has_representation(g, elements[1])
    THEN IF is_a(elements[1], "IfcProject")
         THEN by_type(g, "IfcElement") \o by_type(g, "IfcSite")
         ELSE get_decomposition(g, elements[1])
    ELSE elements

UnwantedTypes_noSpace ==
    {"IfcFeatureElement", "IfcProject", "IfcFurnishingElement", "IfcAnnotation"}

\* the classes filter_elements removes
UnwantedTypes ==
    {"IfcFeatureElement", "IfcSpace", "IfcProject", "IfcFurnishingElement", "IfcAnnotation"}

unwanted(e) == \E t \in UnwantedTypes : is_a(e, t)

wanted(e) == ~unwanted(e)

filter_elements(g, elements, expand) ==
    SelectSeq(expand_elements(g, elements, expand), wanted)

(***************************************************************************)
(* Python values as the projector sees them.  k is the Python class, s the *)
(* text of a string as a sequence of words (or the class of a list's first *)
(* element), n the number (or the length of a list, or an entity's id).    *)
(***************************************************************************)
PyNone == [k |-> "none", s |-> <<>>, n |-> 0]
PyInt(i) == [k |-> "int", s |-> <<>>, n |-> i]
PyFloat(i) == [k |-> "float", s |-> <<>>, n |-> i]
PyBool(b) == [k |-> "bool", s |-> <<>>, n |-> IF b THEN 1 ELSE 0]
PyStr(words) == [k |-> "str", s |-> words, n |-> 0]
PyEntity(i) == [k |-> "entity_instance", s |-> <<>>, n |-> i]
PyList(first, len) == [k |-> "list", s |-> first, n |-> len]

\* isinstance(value, int): bool is a subclass of int
isinstance_int(v) == v.k \in {"int", "bool"}

isinstance_float(v) == v.k = "float"

isinstance_entity(v) == v.k = "entity_instance"

\* isinstance(value, (list, tuple)) and value
nonempty_list(v) == v.k = "list" /\ v.n > 0

\* bool(value)
truthy(v) ==
    CASE v.k = "none" -> FALSE
      [] v.k \in {"int", "float", "bool", "list"} -> v.n # 0
      [] v.k = "str" -> v.s # <<>>
      [] OTHER -> TRUE

\* str(value)
py_str(v) == IF v.k = "str" THEN v ELSE PyStr(<<v.k>> \o v.s)

\* "Error: {}".format(e)
error_marker(exc) == PyStr(<<"Error:", exc>>)

StartsWithError(v) == v.k = "str" /\ Len(v.s) > 0 /\ v.s[1] = "Error:"

(***************************************************************************)
(* Declared attributes of an entity.  A slot is one declared attribute:    *)
(* its name, the primitive type of its declaration, the value a read       *)
(* returns, the exception class a read raises ("" when it returns), and    *)
(* the items of its enumeration.                                           *)
(***************************************************************************)
Slot(name, data_type, value, raises, items) ==
    [name |-> name, data_type |-> data_type, value |-> value, raises |-> raises,
     items |-> items]

WallTypes == <<"SOLIDWALL", "USERDEFINED", "NOTDEFINED">>

\* the attributes of the entities of a source graph: GlobalId and Name
GraphAttribs(e) ==
    << Slot("GlobalId", "string", PyStr(<<"guid">>), "", <<>>),
       Slot("Name", "string", PyStr(<<EntType(e)>>), "", <<>>) >>

Entity(e) == [id |-> e, type |-> EntType(e), attrs |-> GraphAttribs(e)]

\* range(20): the attribute numbers get_elem_attribs asks for
MaxAttribNumber == 20

\* the attribute names found: the first contiguous run, 20 at most
attribute_names(ifcentity) ==
    [i \in 1..(IF Len(ifcentity.attrs) < MaxAttribNumber
               THEN Len(ifcentity.attrs) ELSE MaxAttribNumber) |-> ifcentity.attrs[i].name]

SlotNamed(ifcentity, name) ==
    ifcentity.attrs[CHOOSE i \in DOMAIN ifcentity.attrs : ifcentity.attrs[i].name = name]

HasSlot(ifcentity, name) ==
    \E i \in DOMAIN ifcentity.attrs : ifcentity.attrs[i].name = name

\* the value get_elem_attribs records for a read that raised
caught_value(slot) == error_marker(slot.raises)

\* value = getattr(ifcentity, attr) under try / except Exception
read_attrib(slot) == IF slot.raises = "" THEN slot.value ELSE caught_value(slot)

\* get_elem_attribs: the items of info_ifcentity in insertion order
get_elem_attribs(ifcentity) ==
    << [attr |-> "id", value |-> PyInt(ifcentity.id)],
       [attr |-> "type", value |-> PyStr(<<ifcentity.type>>)] >>
    \o [i \in DOMAIN attribute_names(ifcentity) |->
          [attr |-> attribute_names(ifcentity)[i],
           value |-> read_attrib(SlotNamed(ifcentity, attribute_names(ifcentity)[i]))]]

(***************************************************************************)
(* DocumentObjects.  Props maps a property name to its kind, value and     *)
(* status; Group is the sequence of children (positions in objs); Shape is *)
(* the geometry instance assigned (0: none); Coin the scene nodes added.   *)
(***************************************************************************)
Prop(type, value, status) == [type |-> type, value |-> value, status |-> status]

NoProps == [x \in {} |-> Prop("", PyNone, {})]

\* add_object: a new object of the document
add_object(fctype) ==
    [fctype |-> fctype, Label |-> "IfcObject", Props |-> NoProps, Group |-> <<>>,
     Shape |-> 0, Coin |-> <<>>]

PropertiesList(obj) == DOMAIN obj.Props

\* obj.addProperty(type, name): the host raises when the name is taken
addProperty(obj, type, name, initial) ==
    [obj EXCEPT !.Props = (name :> Prop(type, initial, {})) @@ obj.Props]

\* setattr(obj, name, value)
setProperty(obj, name, value) == [obj EXCEPT !.Props[name].value = value]

setPropertyStatus(obj, name, st) ==
    [obj EXCEPT !.Props[name].status = obj.Props[name].status \cup {st}]

\* getattr(c, "StepId", 0)
StepIdOf(obj) == IF "StepId" \in PropertiesList(obj) THEN obj.Props["StepId"].value.n ELSE 0

HoldShapeOf(obj) == "HoldShape" \in PropertiesList(obj) /\ obj.Props["HoldShape"].value.n = 1

TypeOf(obj) == IF "Type" \in PropertiesList(obj) THEN obj.Props["Type"].value.s[1] ELSE "None"

\* get_ifc_classes for an object not (yet) linked under a project
get_ifc_classes(baseclass) ==
    IF baseclass \in {"IfcProject", "IfcProjectLibrary"}
    THEN <<"IfcProject", "IfcProjectLibrary">>
    ELSE <<baseclass>>

(***************************************************************************)
(* Attribute projector.  Every step yields the object and the exception    *)
(* raised ("" when none); an exception ends the projection where it is.    *)
(***************************************************************************)
Done(obj) == [obj |-> obj, raised |-> ""]

Raised(obj, exc) == [obj |-> obj, raised |-> exc]

\* the property name an item of info_ifcentity is projected to
prop_name(attr) ==
    CASE attr = "type" -> "Type"
      [] attr = "id" -> "StepId"
      [] OTHER -> attr

\* get_primitive_type(attr_def), None when no declared attribute has the name
data_type_of(ifcentity, attr) ==
    IF HasSlot(ifcentity, attr) THEN SlotNamed(ifcentity, attr).data_type ELSE "None"

enum_items_of(ifcentity, attr) ==
    IF HasSlot(ifcentity, attr) THEN SlotNamed(ifcentity, attr).items ELSE <<>>

\* value in items
in_items(value, items) == value.k = "str" /\ Len(value.s) = 1 /\ InSeq(value.s[1], items)

\* the first of UNDEFINED, NOTDEFINED, USERDEFINED among the items, if any
enum_fallback(value, items) ==
    IF in_items(value, items) THEN value
    ELSE IF InSeq("UNDEFINED", items) THEN PyStr(<<"UNDEFINED">>)
    ELSE IF InSeq("NOTDEFINED", items) THEN PyStr(<<"NOTDEFINED">>)
    ELSE IF InSeq("USERDEFINED", items) THEN PyStr(<<"USERDEFINED">>)
    ELSE value

\* the "Type" branch: the enumeration and its hidden companion IfcType
project_type(obj, attr, value) ==
    LET o1 == addProperty(obj, "App::PropertyEnumeration", attr, PyNone)
        o2 == setPropertyStatus(o1, attr, "Transient")
        o3 == setProperty(o2, attr, PyStr(<<get_ifc_classes(value.s[1])[1]>>))
        o4 == setProperty(o3, attr, value)
        o5 == addProperty(o4, "App::PropertyString", "IfcType", PyStr(<<>>))
        o6 == setPropertyStatus(o5, "IfcType", "Hidden")
    IN  Done(setProperty(o6, "IfcType", value))

project_int(obj, attr, value) ==
    LET o1 == setProperty(addProperty(obj, "App::PropertyInteger", attr, PyInt(0)),
                          attr, PyInt(value.n))
    IN  Done(IF attr = "StepId" THEN setPropertyStatus(o1, attr, "ReadOnly") ELSE o1)

project_float(obj, attr, value) ==
    Done(setProperty(addProperty(obj, "App::PropertyFloat", attr, PyFloat(0)), attr, value))

\* the "boolean" branch: a value that reaches it is no int and no bool, and
\* the host's boolean property takes nothing else
project_bool(obj, attr, value) ==
    LET o1 == addProperty(obj, "App::PropertyBool", attr, PyBool(FALSE))
    IN  IF isinstance_int(value) THEN Done(setProperty(o1, attr, PyBool(value.n # 0)))
        ELSE Raised(o1, "TypeError")

project_link(obj, attr, links) ==
    Done(IF links THEN addProperty(obj, "App::PropertyLink", attr, PyNone) ELSE obj)

project_list(obj, attr, value, links) ==
    Done(IF value.s = <<"entity_instance">> /\ links
         THEN addProperty(obj, "App::PropertyLinkList", attr, PyList(<<>>, 0))
         ELSE obj)

project_enum(obj, attr, value, items) ==
    LET o1 == addProperty(obj, "App::PropertyEnumeration", attr, PyNone)
        o2 == setProperty(o1, attr, IF items = <<>> THEN PyNone ELSE PyStr(<<items[1]>>))
        v == enum_fallback(value, items)
    IN  Done(IF in_items(v, items) THEN setProperty(o2, attr, v) ELSE o2)

project_string(obj, attr, value) ==
    LET o1 == addProperty(obj, "App::PropertyString", attr, PyStr(<<>>))
    IN  Done(IF value.k # "none" THEN setProperty(o1, attr, py_str(value)) ELSE o1)

\* one turn of the loop over info_ifcentity.items()
project_item(ifcentity, obj, item, links) ==
    LET attr == prop_name(item.attr)
        value == item.value
        data_type == data_type_of(ifcentity, attr)
    IN  IF item.attr = "Name" \/ attr \in PropertiesList(obj) THEN Done(obj)
        ELSE IF attr = "Type" THEN project_type(obj, attr, value)
        ELSE IF isinstance_int(value) THEN project_int(obj, attr, value)
        ELSE IF isinstance_float(value) THEN project_float(obj, attr, value)
        ELSE IF data_type = "boolean" THEN project_bool(obj, attr, value)
        ELSE IF isinstance_entity(value) THEN project_link(obj, attr, links)
        ELSE IF nonempty_list(value) THEN project_list(obj, attr, value, links)
        ELSE IF data_type = "enum"
             THEN project_enum(obj, attr, value, enum_items_of(ifcentity, attr))
        ELSE project_string(obj, attr, value)

RECURSIVE project_items(_, _, _, _, _)
project_items(ifcentity, st, items, i, links) ==
    IF i > Len(items) \/ st.raised # "" THEN st
    ELSE project_items(ifcentity, project_item(ifcentity, st.obj, items[i], links),
                       items, i + 1, links)

\* getattr(ifcentity, "Name", None): only an AttributeError yields the default
name_read_raises(ifcentity) ==
    IF HasSlot(ifcentity, "Name") /\ SlotNamed(ifcentity, "Name").raises # "AttributeError"
    THEN SlotNamed(ifcentity, "Name").raises
    ELSE ""

label_of(ifcentity) ==
    IF HasSlot(ifcentity, "Name") /\ SlotNamed(ifcentity, "Name").raises = ""
       /\ truthy(SlotNamed(ifcentity, "Name").value)
    THEN py_str(SlotNamed(ifcentity, "Name").value).s[1]
    ELSE ifcentity.type

\* obj.addProperty("App::PropertyBool", "HoldShape", "Base"): not guarded by
\* PropertiesList, the host raises NameError for a name the object has
hold_shape_exists(obj) == "HoldShape" \in PropertiesList(obj)

add_properties(ifcentity, obj, links, holdshape) ==
    IF name_read_raises(ifcentity) # "" THEN Raised(obj, name_read_raises(ifcentity))
    ELSE LET o1 == [obj EXCEPT !.Label = label_of(ifcentity)]
         IN  IF hold_shape_exists(o1) THEN Raised(o1, "NameError")
             ELSE LET o2 == addProperty(o1, "App::PropertyBool", "HoldShape", PyBool(FALSE))
                      o3 == setProperty(o2, "HoldShape", PyBool(holdshape))
                  IN  project_items(ifcentity, Done(o3), get_elem_attribs(ifcentity), 1, links)

\* print(... ifcentity.Name) in create_object: the plain attribute read
name_print_raises(ifcentity) ==
    IF HasSlot(ifcentity, "Name") THEN SlotNamed(ifcentity, "Name").raises
    ELSE "AttributeError"

\* create_object: the new object with its properties, not yet in a Group
create_object(ifcentity, holdshape) ==
    IF name_print_raises(ifcentity) # ""
    THEN Raised(add_object("object"), name_print_raises(ifcentity))
    ELSE add_properties(ifcentity, add_object("object"), FALSE, holdshape)

(***************************************************************************)
(* Tree materializer.                                                      *)
(***************************************************************************)
\* get_children: the related entities of the object's entity, filtered
get_children(g, obj, only_structure, assemblies) ==
    LET ifcentity == StepIdOf(obj)
        decomposed == IF assemblies \/ ~is_a(ifcentity, "IfcElement")
                      THEN g.IsDecomposedBy[ifcentity] ELSE <<>>
        related == IF ~only_structure
                   THEN g.ContainsElements[ifcentity] \o g.HasOpenings[ifcentity]
                        \o g.HasFillings[ifcentity]
                   ELSE <<>>
    IN  filter_elements(g, decomposed \o related, FALSE)

group_step_ids_head(os, parent) ==
    {StepIdOf(os[os[parent].Group[i]]) : i \in DOMAIN os[parent].Group \cap {1}}

\* [getattr(c, "StepId", 0) for c in getattr(parent, "Group", [])]
group_step_ids(os, parent) == {StepIdOf(os[c]) : c \in Range(os[parent].Group)}

has_child_never(os, parent, element) == FALSE

\* the dedup test of create_child: a child with the same StepId exists
has_child(os, parent, element) == element \in group_step_ids(os, parent)

is_building(e) == is_a(e, "IfcBuilding")

\* the flags of get_children(child, ifcfile) in the site special case: the
\* defaults, whatever only_structure and assemblies the caller gave
force_flags(only_structure, assemblies) ==
    [only_structure |-> FALSE, assemblies |-> TRUE]

site_buildings_none(g, child, f) == <<>>

\* the buildings force-created under a site just created
site_buildings(g, child, f) ==
    LET ff == force_flags(f.only_structure, f.assemblies)
    IN  SelectSeq(get_children(g, child, ff.only_structure, ff.assemblies), is_building)

attach_unlisted(st, parent, obj) ==
    [st EXCEPT !.objs = Append([st.objs EXCEPT ![parent].Group =
                                   Append(st.objs[parent].Group, Len(st.objs) + 1)], obj),
               !.result = IF parent = 1 THEN Append(st.result, Len(st.objs) + 1)
                          ELSE st.result]

\* parent.addObject(child) after document.addObject: the child is the next
\* object of the document and the last of the parent's Group
attach(st, parent, obj) ==
    [st EXCEPT !.objs = Append([st.objs EXCEPT ![parent].Group =
                                   Append(st.objs[parent].Group, Len(st.objs) + 1)], obj),
               !.result = Append(st.result, Len(st.objs) + 1)]

\* st threads the document, the flat result list and a raised exception
\* through create_child and create_children; f holds the three flags
RECURSIVE create_child(_, _, _, _, _)
RECURSIVE create_child_each(_, _, _, _, _, _)
RECURSIVE create_children_in(_, _, _, _)

create_child(g, st, parent, element, f) ==
    IF st.raised # "" \/ has_child(st.objs, parent, element) THEN st
    ELSE LET made == create_object(Entity(element), HoldShapeOf(st.objs[parent]))
             child == Len(st.objs) + 1
         IN  IF made.raised # ""
             THEN [st EXCEPT !.objs = Append(st.objs, made.obj), !.raised = made.raised]
             ELSE LET st1 == attach(st, parent, made.obj)
                      st2 == IF is_a(element, "IfcSite")
                             THEN create_child_each(g, st1, child,
                                                    site_buildings(g, made.obj, f), 1, f)
                             ELSE st1
                  IN  IF f.recursive THEN create_children_in(g, st2, child, f) ELSE st2

create_child_each(g, st, parent, elements, i, f) ==
    IF i > Len(elements) THEN st
    ELSE create_child_each(g, create_child(g, st, parent, elements[i], f),
                           parent, elements, i + 1, f)

create_children_in(g, st, obj, f) ==
    create_child_each(g, st, obj,
                      get_children(g, st.objs[obj], f.only_structure, f.assemblies), 1, f)

Flags(recursive, only_structure, assemblies) ==
    [recursive |-> recursive, only_structure |-> only_structure, assemblies |-> assemblies]

\* create_children(obj, ifcfile, recursive, only_structure, assemblies)
create_children(g, os, obj, recursive, only_structure, assemblies) ==
    create_children_in(g, [objs |-> os, result |-> <<>>, raised |-> ""], obj,
                       Flags(recursive, only_structure, assemblies))

can_expand_any(g, os, obj) == get_children(g, os[obj], FALSE, TRUE) # <<>>

\* can_expand: some child entity is in no child object
can_expand(g, os, obj) ==
    \E i \in DOMAIN get_children(g, os[obj], FALSE, TRUE) :
        get_children(g, os[obj], FALSE, TRUE)[i] \notin group_step_ids(os, obj)

\* get_project: the object itself or the first project among its parents
is_project(obj) == TypeOf(obj) \in {"IfcProject", "IfcProjectLibrary"}

RECURSIVE in_list_recursive(_, _, _)
in_list_recursive(os, o, fuel) ==
    LET parents == {p \in DOMAIN os : InSeq(o, os[p].Group)}
    IN  IF fuel = 0 THEN parents
        ELSE parents \cup UNION {in_list_recursive(os, p, fuel - 1) : p \in parents}

get_project(os, o) ==
    IF is_project(os[o]) THEN o
    ELSE IF \E p \in in_list_recursive(os, o, Len(os)) : is_project(os[p])
         THEN CHOOSE p \in in_list_recursive(os, o, Len(os)) : is_project(os[p])
         ELSE 0

(***************************************************************************)
(* The project object's Proxy and the cache it holds.  A cache key is the  *)
(* Python object used as the dictionary key: an integer, or the bound      *)
(* method e.id of an entity, which equals no integer.                      *)
(***************************************************************************)
NoMap == [x \in {} |-> 0]

EmptyCache == [Shape |-> NoMap, Color |-> NoMap, Coin |-> NoMap]

\* ifcfile: a loaded object's Proxy holds the file handle; has_cache: its
\* ifccache is set to a cache dictionary
NoProxy == [ifcfile |-> FALSE, has_cache |-> FALSE, ifccache |-> EmptyCache, gui |-> FALSE]

\* no file on disk matters
NoDisk == [p \in {} |-> NoGraph]

\* create_document: the root object, its properties, then the strategy
root_object(filename) ==
    LET o1 == addProperty(add_object("document"), "App::PropertyFile", "FilePath", PyStr(<<>>))
        o2 == addProperty(o1, "App::PropertyBool", "Modified", PyBool(FALSE))
        o3 == setPropertyStatus(o2, "Modified", "Hidden")
    IN  setProperty(o3, "FilePath", PyStr(<<filename>>))

strategy_flags_swapped(strategy) ==
    IF strategy = 1 THEN Flags(TRUE, FALSE, FALSE) ELSE Flags(TRUE, TRUE, TRUE)

\* the flags of the create_children call of strategy 1 and of strategy 2
strategy_flags(strategy) ==
    IF strategy = 1 THEN Flags(TRUE, TRUE, TRUE) ELSE Flags(TRUE, FALSE, FALSE)

create_document(g, filename, shapemode, strategy) ==
    LET project == by_type(g, "IfcProject")[1]
        root == add_properties(Entity(project), root_object(filename), FALSE, shapemode = 0)
        st == [objs |-> <<root.obj>>, result |-> <<>>, raised |-> root.raised]
    IN  IF strategy = 0 \/ root.raised # "" THEN st
        ELSE create_children_in(g, st, 1, strategy_flags(strategy))

(***************************************************************************)
(* SpecTree: a file is imported with some strategy, then nodes are         *)
(* expanded with any flags, in any order.                                  *)
(***************************************************************************)
NoArgs == [fn |-> "none"]

NoLast == [op |-> "none"]

\* what the operation before the last one was
PrevOf(l) ==
    IF l.op \in {"create_document", "create_children", "can_expand"}
    THEN [op |-> l.op, node |-> l.node, flags |-> l.flags]
    ELSE [op |-> "none", node |-> 0, flags |-> Flags(FALSE, FALSE, FALSE)]

InitTree ==
    /\ ifc \in Graphs
    /\ objs = <<>>
    /\ proxy = NoProxy
    /\ args = NoArgs
    /\ last = NoLast
    /\ ncalls = 0
    /\ disk = NoDisk

CreateDocument(shapemode, strategy) ==
    /\ objs = <<>>
    /\ ncalls < MaxCalls
    /\ \E st \in {create_document(ifc, "model.ifc", shapemode, strategy)} :
           /\ objs' = st.objs
           /\ last' = [op |-> "create_document", node |-> 0, strategy |-> strategy,
                       flags |-> strategy_flags(strategy),
                       result |-> st.result, raised |-> st.raised,
                       pre |-> objs, prev |-> PrevOf(last)]
    /\ proxy' = [proxy EXCEPT !.ifcfile = TRUE]
    /\ ncalls' = ncalls + 1
    /\ UNCHANGED <<disk, ifc, args>>

CreateChildren(node, recursive, only_structure, assemblies) ==
    /\ node \in DOMAIN objs
    /\ ncalls < MaxCalls
    /\ \E st \in {create_children(ifc, objs, node, recursive, only_structure, assemblies)} :
           /\ objs' = st.objs
           /\ last' = [op |-> "create_children", node |-> node, strategy |-> 0,
                       flags |-> Flags(recursive, only_structure, assemblies),
                       result |-> st.result, raised |-> st.raised,
                       pre |-> objs, prev |-> PrevOf(last)]
    /\ ncalls' = ncalls + 1
    /\ UNCHANGED <<disk, ifc, proxy, args>>

CanExpand(node) ==
    /\ node \in DOMAIN objs
    /\ ncalls < MaxCalls
    /\ last' = [op |-> "can_expand", node |-> node, strategy |-> 0,
                flags |-> Flags(FALSE, FALSE, TRUE),
                result |-> IF can_expand(ifc, objs, node) THEN <<1>> ELSE <<>>,
                raised |-> "", pre |-> objs, prev |-> PrevOf(last)]
    /\ ncalls' = ncalls + 1
    /\ UNCHANGED <<disk, ifc, objs, proxy, args>>

NextTree ==
    \/ \E shapemode \in {0, 1}, strategy \in {0, 1, 2} : CreateDocument(shapemode, strategy)
    \/ \E node \in DOMAIN objs, recursive, only_structure, assemblies \in BOOLEAN :
           CreateChildren(node, recursive, only_structure, assemblies)
    \/ \E node \in DOMAIN objs : CanExpand(node)

SpecTree == InitTree /\ [][NextTree]_vars

(***************************************************************************)
(* Claims on the tree materializer (SpecTree).                             *)
(***************************************************************************)
GroupStepIds(o) == [i \in DOMAIN objs[o].Group |-> StepIdOf(objs[objs[o].Group[i]])]

ParentOf(o) == CHOOSE p \in DOMAIN objs : InSeq(o, objs[p].Group)

IsExpansion == last.op \in {"create_document", "create_children"}

\* C1: in every reachable state, whatever create_children calls were made on
\* whatever nodes with whatever flags, no object's Group holds two children
\* with the same StepId.
C1_GroupStepIdsDistinct == \A o \in DOMAIN objs : NoDup(GroupStepIds(o))

\* the building of the multi-edge graph holds its wall once, after a call
\* that met the wall again through its three edges and created nothing
C1_Witness ==
    /\ ifc = GraphMultiEdge
    /\ last.op = "create_children"
    /\ last.prev.op = "create_children"
    /\ StepIdOf(objs[last.node]) = 3
    /\ GroupStepIds(last.node) = <<4>>
    /\ last.result = <<>>

SameCallAsBefore ==
    /\ last.op = "create_children"
    /\ last.prev = [op |-> "create_children", node |-> last.node, flags |-> last.flags]

\* C2: a create_children call that directly follows a call with the same
\* node and flags returns an empty list and leaves the document (every
\* object, Group, StepId and property) as it was.
C2_SecondCallCreatesNothing ==
    SameCallAsBefore => last.result = <<>> /\ objs = last.pre

\* a repeated recursive call on the root of a tree the first call built
C2_Witness ==
    /\ SameCallAsBefore
    /\ last.node = 1
    /\ last.flags.recursive
    /\ Len(objs) > 3
    /\ last.result = <<>>

\* C5: every object created by an expansion with only_structure=True is an
\* object of a decomposition child of its parent's entity.
C5_OnlyDecompositionChildren ==
    (IsExpansion /\ last.flags.only_structure) =>
        \A k \in DOMAIN last.result :
            InSeq(StepIdOf(objs[last.result[k]]),
                  ifc.IsDecomposedBy[StepIdOf(objs[ParentOf(last.result[k])])])

TreeIs(stepids, groups) ==
    /\ Len(objs) = Len(stepids)
    /\ \A o \in DOMAIN objs : StepIdOf(objs[o]) = stepids[o] /\ objs[o].Group = groups[o]

\* C6: on the file project > site > building with one wall contained in the
\* building, create_document with strategy 1 yields exactly project > site >
\* building and no object for the wall, and with strategy 2 yields project >
\* site > building > wall.
C6_ScenarioStrategies ==
    (ifc = GraphScenario /\ last.op = "create_document") =>
        /\ last.strategy = 1 => TreeIs(<<1, 2, 3>>, << <<2>>, <<3>>, <<>> >>)
        /\ last.strategy = 2 => TreeIs(<<1, 2, 3, 4>>, << <<2>>, <<3>>, <<4>>, <<>> >>)

C6_Witness ==
    /\ ifc = GraphScenario
    /\ last.op = "create_document"
    /\ last.strategy = 2
    /\ Len(objs) = 4
    /\ StepIdOf(objs[4]) = 4

(***************************************************************************)
(* SpecFilter: filter_elements applied to a drawn entity list.             *)
(***************************************************************************)
InitFilter ==
    /\ ifc \in Graphs
    /\ objs = <<>>
    /\ proxy = NoProxy
    /\ \E elements \in SeqsUpTo(ifc.ents, MaxElems), expand \in BOOLEAN :
           args = [fn |-> "filter_elements", elements |-> elements, expand |-> expand]
    /\ last = NoLast
    /\ ncalls = 0
    /\ disk = NoDisk

FilterElements ==
    /\ args.fn = "filter_elements"
    /\ ncalls = 0
    /\ last' = [op |-> "filter_elements",
                out |-> filter_elements(ifc, args.elements, args.expand)]
    /\ ncalls' = 1
    /\ UNCHANGED <<disk, ifc, objs, proxy, args>>

NextFilter == FilterElements

SpecFilter == InitFilter /\ [][NextFilter]_vars

UnwantedClasses ==
    {"IfcOpeningElement", "IfcSpace", "IfcFurniture", "IfcAnnotation", "IfcProject"}

\* C3: whatever the entity list and the value of expand, the output of
\* filter_elements holds no feature element, space, furnishing element,
\* annotation or project entity.
C3_NoUnwantedInOutput ==
    last.op = "filter_elements" =>
        \A i \in DOMAIN last.out : EntType(last.out[i]) \notin UnwantedClasses

\* the project alone, expanded to the elements and sites of the full graph,
\* among them an opening and furniture, with something left after filtering
C3_Witness ==
    /\ last.op = "filter_elements"
    /\ ifc = GraphFull
    /\ args.elements = <<1>>
    /\ args.expand
    /\ InSeq(5, expand_elements(ifc, args.elements, args.expand))
    /\ InSeq(8, expand_elements(ifc, args.elements, args.expand))
    /\ last.out # <<>>

(***************************************************************************)
(* SpecAttr: entities with declared attributes of every kind, some of      *)
(* whose reads raise, are projected onto one object, again and again.      *)
(***************************************************************************)
SlotPool ==
    { Slot("Name", "string", PyNone, "RuntimeError", <<>>),
      Slot("Description", "string", PyNone, "RuntimeError", <<>>),
      Slot("Elevation", "float", PyFloat(3), "", <<>>),
      Slot("IsMilestone", "boolean", PyBool(TRUE), "", <<>>),
      Slot("IsMilestone", "boolean", PyNone, "", <<>>),
      Slot("IsMilestone", "boolean", PyNone, "RuntimeError", <<>>),
      Slot("PredefinedType", "enum", PyNone, "RuntimeError", WallTypes),
      Slot("OwnerHistory", "entity", PyEntity(5), "", <<>>),
      Slot("RefLatitude", "list", PyList(<<"int">>, 3), "", <<>>) }

DistinctNames(attrs) == \A i, j \in DOMAIN attrs : attrs[i].name = attrs[j].name => i = j

AttrEntType(id) == IF id = 11 THEN "IfcWall" ELSE "IfcTask"

AttrEntities ==
    { [id |-> id, type |-> AttrEntType(id), attrs |-> attrs] :
        id \in {11, 12}, attrs \in {a \in SeqsUpTo(SlotPool, MaxAttrs) : DistinctNames(a)} }

InitAttr ==
    /\ ifc = NoGraph
    /\ objs \in {<<add_object("object")>>, <<root_object("model.ifc")>>}
    /\ proxy = NoProxy
    /\ args = NoArgs
    /\ last = NoLast
    /\ ncalls = 0
    /\ disk = NoDisk

AddProperties(ifcentity, links, holdshape) ==
    /\ ncalls < MaxProjections
    /\ \E r \in {add_properties(ifcentity, objs[1], links, holdshape)} :
           /\ objs' = [objs EXCEPT ![1] = r.obj]
           /\ last' = [op |-> "add_properties", entity |-> ifcentity, links |-> links,
                       holdshape |-> holdshape, raised |-> r.raised, pre |-> objs[1],
                       info |-> <<>>]
    /\ ncalls' = ncalls + 1
    /\ UNCHANGED <<disk, ifc, proxy, args>>

GetElemAttribs(ifcentity) ==
    /\ ncalls < MaxProjections
    /\ last' = [op |-> "get_elem_attribs", entity |-> ifcentity, links |-> FALSE,
                holdshape |-> FALSE, raised |-> "", pre |-> objs[1],
                info |-> get_elem_attribs(ifcentity)]
    /\ ncalls' = ncalls + 1
    /\ UNCHANGED <<disk, ifc, objs, proxy, args>>

NextAttr ==
    \/ \E ifcentity \in AttrEntities, links, holdshape \in BOOLEAN :
           AddProperties(ifcentity, links, holdshape)
    \/ \E ifcentity \in AttrEntities : GetElemAttribs(ifcentity)

SpecAttr == InitAttr /\ [][NextAttr]_vars

(***************************************************************************)
(* Claims on the attribute projector (SpecAttr).                           *)
(***************************************************************************)
Projected == last.op = "add_properties"

\* a later attribute whose own projection is a plain float or string property
PlainSlot(slot) ==
    slot.raises = "" /\ slot.data_type \in {"float", "string"} /\ slot.name # "Name"

\* C9: when the read of an attribute (other than Name, which becomes the
\* label and has no property) raises, the projection onto a fresh object does
\* not abort, the property of that attribute holds a string starting with
\* "Error:", and the later attributes are projected.
C9_ErrorMarkerAndContinue ==
    (Projected /\ last.pre.Props = NoProps) =>
        \A i \in DOMAIN last.entity.attrs :
            (last.entity.attrs[i].raises # "" /\ last.entity.attrs[i].name # "Name") =>
                /\ last.raised = ""
                /\ last.entity.attrs[i].name \in PropertiesList(objs[1])
                /\ StartsWithError(objs[1].Props[last.entity.attrs[i].name].value)
                /\ \A j \in DOMAIN last.entity.attrs :
                      (j > i /\ PlainSlot(last.entity.attrs[j])) =>
                          last.entity.attrs[j].name \in PropertiesList(objs[1])

Reprojected == Projected /\ "StepId" \in PropertiesList(last.pre)

C10_StepIdKept == Reprojected => StepIdOf(objs[1]) = StepIdOf(last.pre)

C10_NoRaise == Reprojected => last.raised = ""

\* C10: re-projecting onto an object that has a StepId leaves the StepId as
\* it was and does not raise.
C10_ReprojectionKeepsStepId == C10_StepIdKept /\ C10_NoRaise

(***************************************************************************)
(* Shape / coin cache and geometry pipeline.                               *)
(*                                                                         *)
(* A geometry instance (a Part shape or a coin node) has an identity id,   *)
(* the entity geom whose geometry it holds (0: none) and, for a compound   *)
(* or a separator, its parts.  A new instance takes the smallest id that   *)
(* no live instance has.                                                   *)
(***************************************************************************)
Inst(id, geom, parts) == [id |-> id, geom |-> geom, parts |-> parts]

\* the dictionary keys: item.id and e.id() are integers, e.id is a method
IntKey(i) == [kind |-> "int", v |-> i]

MethodKey(e) == [kind |-> "method", v |-> e]

int_lookup_key(e) == IntKey(e)

\* the key of the lookup in cache["Shape"] and cache["Color"]: e.id
shape_lookup_key(e) == MethodKey(e)

method_lookup_key(e) == MethodKey(e)

\* the key of the lookup in cache["Coin"]: e.id()
coin_lookup_key(e) == IntKey(e)

\* the key of the inserts: item.id
item_key(e) == IntKey(e)

DefaultColor == [src |-> "default", of |-> 0]

KernelColor(e) == [src |-> "kernel", of |-> e]

get_cache_any(px) == IF px.has_cache THEN px.ifccache ELSE EmptyCache

\* get_cache: the cache of the first loaded object that holds the handle and
\* a non-empty ifccache, or a new empty cache
get_cache(px) == IF px.ifcfile /\ px.has_cache THEN px.ifccache ELSE EmptyCache

\* set_cache: stored on the first loaded object that holds the handle
set_cache(px, cache) ==
    IF px.ifcfile THEN [px EXCEPT !.has_cache = TRUE, !.ifccache = cache] ELSE px

\* ids of the live instances: those of the cache and of the objects
LiveIds(px, os) ==
    {px.ifccache.Shape[k].id : k \in DOMAIN px.ifccache.Shape}
    \cup {px.ifccache.Coin[k].id : k \in DOMAIN px.ifccache.Coin}
    \cup {os[o].Shape : o \in DOMAIN os}
    \cup UNION {Range(os[o].Coin) : o \in DOMAIN os}

RECURSIVE FreshFrom(_, _, _)
FreshFrom(used, n, k) ==
    IF n = 0 THEN <<>>
    ELSE IF k \in used THEN FreshFrom(used, n, k + 1)
    ELSE <<k>> \o FreshFrom(used, n - 1, k + 1)

\* the ids of the next n instances created
Fresh(used, n) == FreshFrom(used, n, 1)

\* the kernel iterator over include=elements: one item per product with a
\* representation, in file order
kernel_items(g, elements) ==
    KeepIn(by_type(g, "IfcRoot"), {e \in Range(elements) : has_representation(g, e)})

\* iterator.initialize() can only succeed when there is a product to process
can_initialize(g, elements) == kernel_items(g, elements) # <<>>

NoneResult == [kind |-> "None", items |-> <<>>]

wrap_shapes_first(shapes, id) == [kind |-> "shape", items |-> <<shapes[1]>>]

\* the end of get_shape: the one shape itself, or a compound of all shapes
wrap_shapes(shapes, id) ==
    IF Len(shapes) = 1 THEN [kind |-> "shape", items |-> <<shapes[1]>>]
    ELSE [kind |-> "compound", items |-> <<Inst(id, 0, shapes)>>]

\* what a call of the pipeline yields: the values returned, the Proxy after
\* it, whether and with what the kernel was invoked, the progress indicator
GeomReturn(shape, colors, px, invoked, include, progress) ==
    [shape |-> shape, colors |-> colors, px |-> px, invoked |-> invoked,
     include |-> include, progress |-> progress]

insert_items_fresh(old, items, new) ==
    [k \in {item_key(items[i]) : i \in DOMAIN items} |->
       new[CHOOSE i \in DOMAIN items : item_key(items[i]) = k]]

\* cache[...][item.id] = value for every item the kernel yielded
insert_items(old, items, new) ==
    [k \in DOMAIN old \cup {item_key(items[i]) : i \in DOMAIN items} |->
       IF \E i \in DOMAIN items : item_key(items[i]) = k
       THEN new[CHOOSE i \in DOMAIN items : item_key(items[i]) = k]
       ELSE old[k]]

\* the copies of the cached instances of the hits
copies(hits, cached_insts, key_of, ids, offset) ==
    [i \in DOMAIN hits |->
       Inst(ids[offset + i], cached_insts[key_of[hits[i]]].geom,
            cached_insts[key_of[hits[i]]].parts)]

get_shape(g, px, used, elements0, cached, valid) ==
    LET elements == filter_elements(g, elements0, TRUE)
        cache == get_cache(px)
        key_of == [e \in Ents |-> shape_lookup_key(e)]
        hit_set == {e \in Range(elements) : cached /\ key_of[e] \in DOMAIN cache.Shape}
        hits == KeepIn(elements, hit_set)
        rest == KeepIn(elements, Range(elements) \ hit_set)
        ids == Fresh(used, Len(hits) + Len(elements) + 1)
        hit_shapes == copies(hits, cache.Shape, key_of, ids, 0)
        hit_colors == [i \in DOMAIN hits |->
                         IF key_of[hits[i]] \in DOMAIN cache.Color
                         THEN cache.Color[key_of[hits[i]]] ELSE DefaultColor]
        items == kernel_items(g, rest)
        new_shapes == [i \in DOMAIN items |-> Inst(ids[Len(hits) + i], items[i], <<>>)]
        new_colors == [i \in DOMAIN items |-> KernelColor(items[i])]
        cache2 == [cache EXCEPT !.Shape = insert_items(cache.Shape, items, new_shapes),
                                !.Color = insert_items(cache.Color, items, new_colors)]
        shapes == hit_shapes \o new_shapes
    IN  IF elements = <<>>
        THEN GeomReturn(NoneResult, <<>>, px, FALSE, <<>>, "none")
        ELSE IF rest = <<>>
        THEN GeomReturn([kind |-> "list", items |-> hit_shapes], hit_colors, px,
                        FALSE, <<>>, "none")
        ELSE IF ~(valid /\ can_initialize(g, rest))
        THEN GeomReturn(NoneResult, <<>>, px, TRUE, rest, "started")
        ELSE GeomReturn(wrap_shapes(shapes, ids[Len(hits) + Len(items) + 1]),
                        hit_colors \o new_colors, set_cache(px, cache2),
                        TRUE, rest, "stopped")

\* nodes = coin.SoSeparator() with the children added to it
separator(id, children) == [kind |-> "separator", items |-> <<Inst(id, 0, children)>>]

get_coin(g, px, used, elements0, cached, valid) ==
    LET elements == filter_elements(g, elements0, TRUE)
        cache == get_cache(px)
        key_of == [e \in Ents |-> coin_lookup_key(e)]
        hit_set == {e \in Range(elements) : cached /\ key_of[e] \in DOMAIN cache.Coin}
        hits == KeepIn(elements, hit_set)
        rest == KeepIn(elements, {e \in Range(elements) \ hit_set : has_representation(g, e)})
        ids == Fresh(used, Len(hits) + Len(elements) + 1)
        hit_nodes == copies(hits, cache.Coin, key_of, ids, 1)
        items == kernel_items(g, rest)
        new_nodes == [i \in DOMAIN items |-> Inst(ids[1 + Len(hits) + i], items[i], <<>>)]
        cache2 == [cache EXCEPT !.Coin = insert_items(cache.Coin, items, new_nodes)]
    IN  IF rest = <<>> \/ hit_nodes # <<>>
        THEN GeomReturn(separator(ids[1], hit_nodes), <<>>, px, FALSE, <<>>, "none")
        ELSE IF ~(valid /\ can_initialize(g, rest))
        THEN GeomReturn(NoneResult, <<>>, px, TRUE, rest, "started")
        ELSE GeomReturn(separator(ids[1], new_nodes), <<>>, set_cache(px, cache2),
                        TRUE, rest, "stopped")

\* basenode.addChild(node) with node None: a null child handed to the scene
\* graph, which asserts on it or dereferences it
NullChildOutcomes == {"abort", "segfault"}

SetReturn(os, px, raised, branch, call) ==
    [objs |-> os, px |-> px, raised |-> raised, branch |-> branch, call |-> call]

NoCall == GeomReturn(NoneResult, <<>>, NoProxy, FALSE, <<>>, "none")

\* basenode.removeChild(4): the node an earlier set_geometry added
remove_coin_child(os, px, o) == IF px.gui THEN [os EXCEPT ![o].Coin = <<>>] ELSE os

\* the instances live when the coin branch calls get_coin: the placeholder
\* box is assigned before, when the object has children
coin_branch_ids(used, os, o, box) == IF os[o].Group # <<>> THEN used \cup {box} ELSE used

\* set_geometry(obj, elem, ifcfile, cached), after removeChild: box is the
\* instance Part.makeBox would create, shape_call and coin_call what
\* get_shape([elem]) and get_coin([elem]) yield, null_child what
\* addChild(None) does in this build
set_geometry(g, os1, px, o, box, shape_call, coin_call, null_child) ==
    LET boxed == [os1 EXCEPT ![o].Shape = box]
        os3 == IF os1[o].Group # <<>> THEN boxed ELSE os1
    IN  IF os1[o].Group # <<>> /\ ~has_representation(g, StepIdOf(os1[o]))
        THEN SetReturn(boxed, px, "", "placeholder", NoCall)
        ELSE IF HoldShapeOf(os1[o])
        THEN IF shape_call.shape.kind = "None"
             THEN SetReturn(os1, shape_call.px, "", "shape", shape_call)
             ELSE IF shape_call.shape.kind = "list"
             THEN SetReturn(os1, shape_call.px, "AttributeError", "shape", shape_call)
             ELSE SetReturn([os1 EXCEPT ![o].Shape = shape_call.shape.items[1].id],
                            shape_call.px, "", "shape", shape_call)
        ELSE IF px.gui
        THEN IF coin_call.shape.kind = "None"
             THEN SetReturn(os3, coin_call.px, null_child, "coin", coin_call)
             ELSE SetReturn([os3 EXCEPT ![o].Coin = <<coin_call.shape.items[1].id>>],
                            coin_call.px, "", "coin", coin_call)
        ELSE SetReturn(os1, px, "", "none", NoCall)

(***************************************************************************)
(* SpecGeom: a file with a wall, an opening and a window is imported (or   *)
(* not loaded at all), then geometry is requested for entity lists and     *)
(* set on objects, with and without the cache, the kernel failing or not.  *)
(***************************************************************************)
Increasing(s) == \A i, j \in DOMAIN s : i < j => s[i] < s[j]

\* the entity lists requested: in file order, MaxElems entities at most
ElementLists(g) == {s \in SeqsUpTo(g.ents, MaxElems) : Increasing(s)}

InitGeom ==
    /\ ifc = GraphOpening
    /\ \/ \E shapemode \in {0, 1} :
             /\ objs = create_document(ifc, "model.ifc", shapemode, 2).objs
             /\ proxy = [NoProxy EXCEPT !.ifcfile = TRUE, !.gui = TRUE]
       \/ /\ objs = <<>>
          /\ proxy = NoProxy
    /\ args = NoArgs
    /\ last = NoLast
    /\ ncalls = 0
    /\ disk = NoDisk

GeomLast(op, o, elements, cached, valid, raised, branch, call) ==
    [op |-> op, obj |-> o, elements |-> elements, cached |-> cached, valid |-> valid,
     raised |-> raised, branch |-> branch, call |-> [call EXCEPT !.px = NoProxy],
     pre |-> proxy, preobjs |-> objs]

GetShape(elements, cached, valid) ==
    /\ ncalls < MaxGeomCalls
    /\ \E used \in {LiveIds(proxy, objs)} :
       \E r \in {get_shape(ifc, proxy, used, elements, cached, valid)} :
           /\ proxy' = r.px
           /\ last' = GeomLast("get_shape", 0, elements, cached, valid, "", "", r)
    /\ ncalls' = ncalls + 1
    /\ UNCHANGED <<disk, ifc, objs, args>>

GetCoin(elements, cached, valid) ==
    /\ ncalls < MaxGeomCalls
    /\ \E used \in {LiveIds(proxy, objs)} :
       \E r \in {get_coin(ifc, proxy, used, elements, cached, valid)} :
           /\ proxy' = r.px
           /\ last' = GeomLast("get_coin", 0, elements, cached, valid, "", "", r)
    /\ ncalls' = ncalls + 1
    /\ UNCHANGED <<disk, ifc, objs, args>>

\* the callers hand set_geometry the entity of the object
SetGeometry(o, cached, valid, null_child) ==
    /\ o \in DOMAIN objs
    /\ ncalls < MaxGeomCalls
    /\ \E elem \in {StepIdOf(objs[o])}, os1 \in {remove_coin_child(objs, proxy, o)} :
       \E used \in {LiveIds(proxy, os1)} :
       \E box \in {Fresh(used, 1)[1]} :
       \E coin_used \in {coin_branch_ids(used, os1, o, box)} :
       \E shape_call \in {get_shape(ifc, proxy, used, <<elem>>, cached, valid)},
          coin_call \in {get_coin(ifc, proxy, coin_used, <<elem>>, cached, valid)} :
       \E r \in {set_geometry(ifc, os1, proxy, o, box, shape_call, coin_call, null_child)} :
           /\ objs' = r.objs
           /\ proxy' = r.px
           /\ last' = GeomLast("set_geometry", o, <<elem>>, cached, valid,
                               r.raised, r.branch, r.call)
    /\ ncalls' = ncalls + 1
    /\ UNCHANGED <<disk, ifc, args>>

NextGeom ==
    \/ \E elements \in ElementLists(ifc), cached, valid \in BOOLEAN :
           GetShape(elements, cached, valid)
    \/ \E elements \in ElementLists(ifc), cached, valid \in BOOLEAN :
           GetCoin(elements, cached, valid)
    \/ \E o \in DOMAIN objs, cached, valid \in BOOLEAN, null_child \in NullChildOutcomes :
           SetGeometry(o, cached, valid, null_child)

SpecGeom == InitGeom /\ [][NextGeom]_vars

(***************************************************************************)
(* Claims on the cache and the geometry pipeline (SpecGeom).               *)
(***************************************************************************)
\* the Shape cache before and after the last call
ShapeCacheBefore == get_cache(last.pre).Shape

ShapeCacheNow == get_cache(proxy).Shape

\* the shapes handed to the caller: the shape, the list, or the parts of
\* the compound
ReturnedShapes ==
    IF last.call.shape.kind = "compound" THEN last.call.shape.items[1].parts
    ELSE last.call.shape.items

CachedGetShape == last.op = "get_shape" /\ last.cached

\* C4: get_shape with cached=True for an entity whose id is a key of the
\* Shape cache does not invoke the kernel for that entity and returns a copy
\* of the cached shape, not the cached instance.
C4_CacheHitSkipsKernel ==
    CachedGetShape =>
        \A e \in Range(last.elements) :
            IntKey(e) \in DOMAIN ShapeCacheBefore =>
                /\ ~InSeq(e, last.call.include)
                /\ \E i \in DOMAIN ReturnedShapes :
                      /\ ReturnedShapes[i].geom = e
                      /\ ReturnedShapes[i].id # ShapeCacheBefore[IntKey(e)].id

\* an entity that becomes an object and has an own representation
HasGeometry(e) == wanted(e) /\ has_representation(ifc, e)

\* two distinct entities with geometry are requested from the cache, exactly
\* one of them cached, and the kernel iterator initializes
OneCachedOneNot ==
    /\ CachedGetShape
    /\ last.valid
    /\ Len(last.elements) = 2
    /\ last.elements[1] # last.elements[2]
    /\ \A i \in 1..2 : HasGeometry(last.elements[i])
    /\ \E i, j \in 1..2 :
          /\ IntKey(last.elements[i]) \in DOMAIN ShapeCacheBefore
          /\ IntKey(last.elements[j]) \notin DOMAIN ShapeCacheBefore

\* C7: get_shape with cached=True for two entities, one whose id is in the
\* Shape cache and one whose id is not, with the kernel succeeding, returns
\* one compound of exactly two shapes, one per entity, and afterwards the
\* Shape cache holds both ids.
C7_TwoShapeCompound ==
    OneCachedOneNot =>
        /\ last.call.shape.kind = "compound"
        /\ Len(ReturnedShapes) = 2
        /\ {ReturnedShapes[i].geom : i \in 1..2} = Range(last.elements)
        /\ \A i \in 1..2 : IntKey(last.elements[i]) \in DOMAIN ShapeCacheNow

C7_Witness ==
    /\ OneCachedOneNot
    /\ last.elements = <<4, 6>>
    /\ IntKey(4) \in DOMAIN ShapeCacheBefore
    /\ DOMAIN ShapeCacheNow = {IntKey(4), IntKey(6)}

\* the kernel was invoked and its iterator did not initialize
IteratorFailed == last.call.invoked /\ last.call.progress = "started"

IsGeomOp == last.op \in {"get_shape", "get_coin", "set_geometry"}

\* C8: when the kernel iterator fails to initialize, get_shape and get_coin
\* return (None, None) and add no cache entry, and set_geometry, in its
\* HoldShape branch and in its coin branch, finishes without raising and
\* assigns no new geometry to the object.
C8_IteratorFailureIsSkipped ==
    (IsGeomOp /\ IteratorFailed) =>
        /\ last.call.shape.kind = "None"
        /\ get_cache(proxy) = get_cache(last.pre)
        /\ last.op = "set_geometry" =>
              /\ last.raised = ""
              /\ objs[last.obj].Shape = last.preobjs[last.obj].Shape

\* the same, for the HoldShape branch of set_geometry and the two functions
C8_ShapeBranchSkips ==
    (IsGeomOp /\ IteratorFailed /\ last.branch # "coin") =>
        /\ last.call.shape.kind = "None"
        /\ get_cache(proxy) = get_cache(last.pre)
        /\ last.op = "set_geometry" =>
              /\ last.raised = ""
              /\ objs[last.obj].Shape = last.preobjs[last.obj].Shape

(***************************************************************************)
(* Further claims on the tree materializer (SpecTree).                     *)
(***************************************************************************)
\* the entities related to e by a decomposition, containment, opening or
\* filling edge that the filter lets through
DefaultChildren(e) ==
    {c \in Range(ifc.IsDecomposedBy[e]) \cup Range(ifc.ContainsElements[e])
           \cup Range(ifc.HasOpenings[e]) \cup Range(ifc.HasFillings[e]) :
        ~\E t \in UnwantedClasses : is_a(c, t)}

\* some default child of the node's entity has no object in the node's Group
HasMissingChild(o) ==
    \E c \in DefaultChildren(StepIdOf(objs[o])) : ~InSeq(c, GroupStepIds(o))

DefaultExpansion ==
    /\ last.op = "create_children"
    /\ ~last.flags.only_structure
    /\ last.flags.assemblies

\* C11: can_expand(node) is true exactly when get_children(node) with the
\* default flags yields an entity whose id is the StepId of no object of the
\* node's Group, and it is false in the state create_children(node) with the
\* default flags leaves.
C11_CanExpandIffMissingChild ==
    /\ last.op = "can_expand" => (last.result = <<1>> <=> HasMissingChild(last.node))
    /\ DefaultExpansion => ~can_expand(ifc, objs, last.node)

\* can_expand answers False on a node right after its default expansion gave
\* it children
C11_Witness ==
    /\ last.op = "can_expand"
    /\ last.prev.op = "create_children"
    /\ last.prev.node = last.node
    /\ ~last.prev.flags.only_structure /\ last.prev.flags.assemblies
    /\ objs[last.node].Group # <<>>
    /\ last.result = <<>>

\* can_expand answers True on a node that has some of its children
C11_WitnessTrue ==
    /\ last.op = "can_expand"
    /\ objs[last.node].Group # <<>>
    /\ last.result = <<1>>

(***************************************************************************)
(* Further claims on the cache and the geometry pipeline (SpecGeom).       *)
(***************************************************************************)
CacheNames == {"Shape", "Color", "Coin"}

\* the keys of one mapping of the cache of the file
CacheKeys(px, m) == DOMAIN get_cache(px)[m]

\* C12: while the project object is loaded, every step of get_shape,
\* get_coin and set_geometry keeps every key of the Shape, Color and Coin
\* mappings: entries are added or overwritten, never removed.
C12_CacheKeysKept ==
    [][proxy.ifcfile => \A m \in CacheNames : CacheKeys(proxy, m) \subseteq CacheKeys(proxy', m)]_vars

\* a get_coin call whose iterator failed, made with a filled Shape cache
C12_Witness ==
    /\ last.op = "get_coin"
    /\ last.pre.ifcfile
    /\ CacheKeys(last.pre, "Shape") # {}
    /\ IteratorFailed
    /\ CacheKeys(proxy, "Shape") = CacheKeys(last.pre, "Shape")

\* a get_shape call that adds a key to a filled Shape cache
C12_WitnessAdded ==
    /\ last.op = "get_shape"
    /\ CacheKeys(last.pre, "Shape") # {}
    /\ CacheKeys(proxy, "Shape") \ CacheKeys(last.pre, "Shape") # {}

(***************************************************************************)
(* SpecSave: a file is imported, then its content is edited in memory, the *)
(* root's FilePath and Modified are set, the document is reloaded (the     *)
(* Proxy loses the handle) and objects are saved, in any order.            *)
(***************************************************************************)
Paths == {"model.ifc", "copy.ifc"}

SaveGraphs == {GraphScenario, GraphOpening}

\* hasattr(obj, "FilePath") and obj.FilePath
has_file_path(obj) ==
    "FilePath" \in PropertiesList(obj) /\ truthy(obj.Props["FilePath"].value)

FilePathOf(obj) == obj.Props["FilePath"].value.s[1]

ModifiedOf(obj) == obj.Props["Modified"].value.n = 1

\* get_ifcfile: the handle of the project's Proxy, or the file at FilePath
\* opened and kept on the Proxy, or None; mem is the content of the handle
get_ifcfile(os, px, mem, dk, o) ==
    LET project == get_project(os, o)
    IN  IF project = 0 THEN [none |-> TRUE, px |-> px, mem |-> mem]
        ELSE IF px.ifcfile THEN [none |-> FALSE, px |-> px, mem |-> mem]
        ELSE IF has_file_path(os[project])
        THEN [none |-> FALSE, px |-> [px EXCEPT !.ifcfile = TRUE],
              mem |-> dk[FilePathOf(os[project])]]
        ELSE [none |-> TRUE, px |-> px, mem |-> mem]

SaveReturn(os, px, mem, dk, raised, wrote) ==
    [objs |-> os, px |-> px, mem |-> mem, disk |-> dk, raised |-> raised, wrote |-> wrote]

save_ifc_no_clear(os, px, mem, dk, o) ==
    IF ~has_file_path(os[o]) THEN SaveReturn(os, px, mem, dk, "", FALSE)
    ELSE LET h == get_ifcfile(os, px, mem, dk, o)
         IN  SaveReturn(os, h.px, h.mem, [dk EXCEPT ![FilePathOf(os[o])] = h.mem], "", TRUE)

\* save_ifc: write the handle to FilePath, then clear Modified
save_ifc(os, px, mem, dk, o) ==
    IF ~has_file_path(os[o]) THEN SaveReturn(os, px, mem, dk, "", FALSE)
    ELSE LET h == get_ifcfile(os, px, mem, dk, o)
         IN  IF h.none THEN SaveReturn(os, h.px, h.mem, dk, "AttributeError", FALSE)
             ELSE SaveReturn([os EXCEPT ![o] = setProperty(os[o], "Modified", PyBool(FALSE))],
                             h.px, h.mem, [dk EXCEPT ![FilePathOf(os[o])] = h.mem],
                             "", TRUE)

\* attribute.edit_attributes on the handle: the content in memory changes,
\* here whether entity e has a representation
edit_attributes(g, e) ==
    [g EXCEPT !.Representation =
        IF e \in g.Representation THEN g.Representation \ {e}
        ELSE g.Representation \cup {e}]

InitSave ==
    /\ ifc \in SaveGraphs
    /\ \E other \in SaveGraphs : disk = [p \in Paths |-> IF p = "model.ifc" THEN ifc ELSE other]
    /\ objs = create_document(ifc, "model.ifc", 0, 1).objs
    /\ proxy = [NoProxy EXCEPT !.ifcfile = TRUE]
    /\ args = NoArgs
    /\ last = NoLast
    /\ ncalls = 0

SaveLast(op, o, raised, wrote) ==
    [op |-> op, obj |-> o, raised |-> raised, wrote |-> wrote,
     pre |-> objs, predisk |-> disk, premem |-> ifc, prepx |-> proxy]

SaveIfc(o) ==
    /\ o \in DOMAIN objs
    /\ ncalls < MaxSaveCalls
    /\ \E r \in {save_ifc(objs, proxy, ifc, disk, o)} :
           /\ objs' = r.objs
           /\ proxy' = r.px
           /\ ifc' = r.mem
           /\ disk' = r.disk
           /\ last' = SaveLast("save_ifc", o, r.raised, r.wrote)
    /\ ncalls' = ncalls + 1
    /\ UNCHANGED args

\* set_attribute on the open handle
EditModel(e) ==
    /\ proxy.ifcfile
    /\ e \in ifc.ents
    /\ ncalls < MaxSaveCalls
    /\ ifc' = edit_attributes(ifc, e)
    /\ last' = SaveLast("set_attribute", 0, "", FALSE)
    /\ ncalls' = ncalls + 1
    /\ UNCHANGED <<disk, objs, proxy, args>>

\* the root's FilePath and Modified properties are set
SetRootProperties(path, modified) ==
    /\ ncalls < MaxSaveCalls
    /\ objs' = [objs EXCEPT ![1] = setProperty(setProperty(objs[1], "FilePath", path),
                                                "Modified", PyBool(modified))]
    /\ last' = SaveLast("set_property", 1, "", FALSE)
    /\ ncalls' = ncalls + 1
    /\ UNCHANGED <<disk, ifc, proxy, args>>

\* the document is closed and opened again: the Proxy holds no handle
Reload ==
    /\ proxy.ifcfile
    /\ ncalls < MaxSaveCalls
    /\ proxy' = [proxy EXCEPT !.ifcfile = FALSE, !.has_cache = FALSE, !.ifccache = EmptyCache]
    /\ ifc' = NoGraph
    /\ last' = SaveLast("reload", 0, "", FALSE)
    /\ ncalls' = ncalls + 1
    /\ UNCHANGED <<disk, objs, args>>

NextSave ==
    \/ \E o \in DOMAIN objs : SaveIfc(o)
    \/ \E e \in {3, 4} : EditModel(e)
    \/ \E path \in {PyStr(<<>>)} \cup {PyStr(<<p>>) : p \in Paths}, modified \in BOOLEAN :
           SetRootProperties(path, modified)
    \/ Reload

SpecSave == InitSave /\ [][NextSave]_vars

(***************************************************************************)
(* Claims on saving (SpecSave).                                            *)
(***************************************************************************)
Saved == last.op = "save_ifc"

\* the object saved is a root object with a non-empty FilePath
SavedRootWithPath ==
    /\ Saved
    /\ last.pre[last.obj].fctype = "document"
    /\ "FilePath" \in DOMAIN last.pre[last.obj].Props
    /\ last.pre[last.obj].Props["FilePath"].value.s # <<>>

SavedPath == last.pre[last.obj].Props["FilePath"].value.s[1]

\* the content of the handle at the time of the write: the one the Proxy
\* held, or the one opened from the path when it held none
HandleWritten == IF last.prepx.ifcfile THEN last.premem ELSE last.predisk[SavedPath]

\* C13: save_ifc on a root object with a non-empty FilePath writes the
\* content of the in-memory handle to that path and leaves Modified false;
\* on an object with no or an empty FilePath it writes nothing and leaves
\* Modified (and everything else) as it was.
C13_SaveWritesAndClears ==
    Saved =>
        IF SavedRootWithPath
        THEN /\ last.raised = ""
             /\ disk = [last.predisk EXCEPT ![SavedPath] = HandleWritten]
             /\ ~ModifiedOf(objs[last.obj])
        ELSE disk = last.predisk /\ objs = last.pre /\ last.raised = ""

\* an edited model saved to a path that held other content, Modified set
C13_Witness ==
    /\ SavedRootWithPath
    /\ ModifiedOf(last.pre[last.obj])
    /\ last.predisk[SavedPath] # last.premem
    /\ last.prepx.ifcfile
    /\ disk[SavedPath] = last.premem
    /\ ~ModifiedOf(objs[last.obj])

\* a save on a root whose FilePath is empty, Modified set
C13_WitnessNoPath ==
    /\ Saved
    /\ last.obj = 1
    /\ ~SavedRootWithPath
    /\ ModifiedOf(objs[1])

\* a save after a reload: the handle is opened from the path and written
C13_WitnessReopened ==
    /\ SavedRootWithPath
    /\ ~last.prepx.ifcfile
    /\ proxy.ifcfile
    /\ ifc = disk[SavedPath]

(***************************************************************************)
(* More claims on the tree materializer (SpecTree).                        *)
(***************************************************************************)
\* C14: after create_document with strategy 2 every object of the tree has
\* an object for every entity get_children yields for it with the default
\* flags: can_expand is false for every object.
C14_StrategyTwoMaterializesAll ==
    (last.op = "create_document" /\ last.strategy = 2) =>
        \A o \in DOMAIN objs : ~can_expand(ifc, objs, o) /\ ~HasMissingChild(o)

\* the same, for the objects of entities that are not IfcElements
C14_NonElementsMaterialized ==
    (last.op = "create_document" /\ last.strategy = 2) =>
        \A o \in DOMAIN objs :
            ~is_a(StepIdOf(objs[o]), "IfcElement") => ~can_expand(ifc, objs, o)

(***************************************************************************)
(* More claims on the geometry pipeline (SpecGeom).                        *)
(***************************************************************************)
\* the entities whose key the last call added to a mapping of the cache
AddedToCache(m) == {k.v : k \in CacheKeys(proxy, m) \ CacheKeys(last.pre, m)}

PipelineCall == last.op \in {"get_shape", "get_coin"}

\* C15: the entities get_shape and get_coin send to the kernel or insert
\* into the cache are among the entities the caller passed, also when one
\* entity without own representation, or the project, is passed.
C15_OnlyRequestedEntities ==
    PipelineCall =>
        /\ Range(last.call.include) \subseteq Range(last.elements)
        /\ \A m \in CacheNames : AddedToCache(m) \subseteq Range(last.elements)

\* the same, for requests that are not one entity without representation
C15_NoExpansionOtherwise ==
    (PipelineCall /\ ~(Len(last.elements) = 1 /\ ~has_representation(ifc, last.elements[1]))) =>
        /\ Range(last.call.include) \subseteq Range(last.elements)
        /\ \A m \in CacheNames : AddedToCache(m) \subseteq Range(last.elements)

\* get_shape was called, by the caller or by the HoldShape branch of
\* set_geometry, and returned geometry
ShapeReturned ==
    /\ \/ last.op = "get_shape"
       \/ last.op = "set_geometry" /\ last.branch = "shape"
    /\ last.call.shape.kind # "None"

\* the entities of the request that produce geometry
Producing == Range(kernel_items(ifc, filter_elements(ifc, last.elements, TRUE)))

C16_WitnessCompound ==
    /\ last.op = "get_shape"
    /\ last.cached
    /\ IntKey(4) \in DOMAIN ShapeCacheBefore
    /\ last.call.shape.kind = "compound"
    /\ Len(ReturnedShapes) = 2

(***************************************************************************)
(* Claims on what one expansion creates and returns (SpecTree).            *)
(***************************************************************************)
IsSite(o) == is_a(StepIdOf(objs[o]), "IfcSite")

\* the buildings get_children yields directly under the entity of a site
BuildingsUnder(o) == {b \in DefaultChildren(StepIdOf(objs[o])) : is_a(b, "IfcBuilding")}

\* C17: when an expansion has created an object for a site, then on its
\* return, recursive or not, every building that get_children yields
\* directly under the site has an object in the site's Group.
C17_SiteHasItsBuildings ==
    IsExpansion =>
        \A k \in DOMAIN last.result :
            IsSite(last.result[k]) =>
                \A b \in BuildingsUnder(last.result[k]) : InSeq(b, GroupStepIds(last.result[k]))

\* a non-recursive create_children on the project created the site, and the
\* site holds its building
C17_Witness ==
    /\ last.op = "create_children"
    /\ ~last.flags.recursive
    /\ last.node = 1
    /\ \E k \in DOMAIN last.result :
          /\ IsSite(last.result[k])
          /\ BuildingsUnder(last.result[k]) # {}
          /\ objs[last.result[k]].Group # <<>>

\* the objects that exist now and did not before the call (create_document
\* makes the root itself before it expands it)
CreatedByCall ==
    {o \in DOMAIN objs : o > Len(last.pre)} \ (IF last.op = "create_document" THEN {1} ELSE {})

\* C18: the list an expansion returns holds exactly the objects created
\* during the call, at every depth, each once, and none that existed before.
C18_ResultIsWhatWasCreated ==
    IsExpansion => Range(last.result) = CreatedByCall /\ NoDup(last.result)

\* a recursive create_children that created a site, its building and the
\* building's wall, on a tree that had objects before
C18_Witness ==
    /\ last.op = "create_children"
    /\ last.flags.recursive
    /\ Len(last.pre) >= 1
    /\ Len(last.result) >= 3
    /\ \E k \in DOMAIN last.result : IsSite(last.result[k])
    /\ \E k \in DOMAIN last.result : ParentOf(last.result[k]) # last.node

(***************************************************************************)
(* Claims on the scene-graph pipeline (SpecGeom).                          *)
(***************************************************************************)
CoinCacheBefore == get_cache(last.pre).Coin

\* the entities of the request after the filter, in order
Requested == filter_elements(ifc, last.elements, TRUE)

CoinHits == {e \in Range(Requested) : IntKey(e) \in DOMAIN CoinCacheBefore}

CoinMisses == {e \in Range(Requested) \ CoinHits : has_representation(ifc, e)}

HitsAndMisses ==
    /\ last.op = "get_coin"
    /\ last.cached
    /\ CoinHits # {}
    /\ CoinMisses # {}

\* the nodes under the separator returned
ReturnedNodes == last.call.shape.items[1].parts

\* C19: get_coin with cached=True, with at least one requested entity in the
\* Coin cache and at least one other with own representation not in it, does
\* not invoke the kernel, leaves the cache as it was, and returns the node
\* that holds copies of the cached nodes of the hits and nothing else.
C19_BailOutOnMixedRequest ==
    HitsAndMisses =>
        /\ ~last.call.invoked
        /\ proxy = last.pre
        /\ last.call.shape.kind = "separator"
        /\ Len(ReturnedNodes) = Cardinality(CoinHits)
        /\ \A i \in DOMAIN ReturnedNodes :
              /\ ReturnedNodes[i].geom \in CoinHits
              /\ ReturnedNodes[i].id # CoinCacheBefore[IntKey(ReturnedNodes[i].geom)].id
        /\ {ReturnedNodes[i].geom : i \in DOMAIN ReturnedNodes} = CoinHits

\* the wall is in the Coin cache, the window is not, both are requested
C19_Witness ==
    /\ HitsAndMisses
    /\ last.elements = <<4, 6>>
    /\ CoinHits = {4}
    /\ CoinMisses = {6}
    /\ Len(ReturnedNodes) = 1

(***************************************************************************)
(* Further claims on the attribute projector (SpecAttr).                   *)
(***************************************************************************)
\* property p of the projected object is what it was before the call
KeptAsBefore(p) ==
    /\ p \in PropertiesList(objs[1])
    /\ objs[1].Props[p].type = last.pre.Props[p].type
    /\ objs[1].Props[p].value = last.pre.Props[p].value

\* the properties the projector adds are left as they were
C20_ProjectedPropertiesKept ==
    Projected => \A p \in PropertiesList(last.pre) : KeptAsBefore(p)

\* C20: add_properties on an object that carries the properties of an
\* earlier projection, with any entity, links and holdshape, adds only
\* properties the object lacks (the host refuses none as already there) and
\* leaves every property the object had, HoldShape and Label included, with
\* its kind and its value.
C20_OnlyMissingAdded ==
    Reprojected =>
        /\ \A p \in PropertiesList(last.pre) : KeptAsBefore(p)
        /\ objs[1].Label = last.pre.Label
        /\ last.raised # "NameError"

\* a projection that runs to its end on an object that had FilePath and
\* Modified and adds the entity's properties to them
C20_WitnessRoot ==
    /\ Projected
    /\ last.raised = ""
    /\ "FilePath" \in PropertiesList(last.pre)
    /\ "StepId" \notin PropertiesList(last.pre)
    /\ {"StepId", "HoldShape", "FilePath", "Modified"} \subseteq PropertiesList(objs[1])

(***************************************************************************)
(* Claims on the kinds of property the projector creates (SpecAttr).       *)
(***************************************************************************)
\* a projection onto an object without properties that ran to its end
FreshProjection == Projected /\ last.pre.Props = NoProps /\ last.raised = ""

\* the value of the slot is a non-empty list or tuple of values that are
\* not entities, and the slot is declared neither boolean nor enumeration
PlainListSlot(slot) ==
    /\ slot.raises = ""
    /\ slot.value.k = "list" /\ slot.value.n > 0
    /\ slot.value.s # <<"entity_instance">>
    /\ slot.data_type \notin {"boolean", "enum"}

\* the property of the slot is a string property holding str(value)
IsStringified(slot) ==
    /\ slot.name \in PropertiesList(objs[1])
    /\ objs[1].Props[slot.name].type = "App::PropertyString"
    /\ objs[1].Props[slot.name].value = py_str(slot.value)

\* C21: an attribute whose value falls in none of the special cases, such as
\* a non-empty list of non-entity values, gets a string property holding the
\* stringified value.
C21_FallbackIsString ==
    FreshProjection =>
        \A i \in DOMAIN last.entity.attrs :
            PlainListSlot(last.entity.attrs[i]) => IsStringified(last.entity.attrs[i])

\* the same for the values that are strings: the text recorded for a read
\* that raised, under a declaration that is neither boolean nor enumeration
C21_StringsAreStrings ==
    FreshProjection =>
        \A i \in DOMAIN last.entity.attrs :
            (/\ last.entity.attrs[i].raises # ""
             /\ last.entity.attrs[i].name # "Name"
             /\ last.entity.attrs[i].data_type \notin {"boolean", "enum"}) =>
                /\ last.entity.attrs[i].name \in PropertiesList(objs[1])
                /\ objs[1].Props[last.entity.attrs[i].name].type = "App::PropertyString"
                /\ objs[1].Props[last.entity.attrs[i].name].value
                       = error_marker(last.entity.attrs[i].raises)

\* C22: an attribute declared boolean, whatever its value, gets a boolean
\* property and never an integer or a string property.
C22_BooleanDeclaredIsBool ==
    (Projected /\ last.pre.Props = NoProps) =>
        \A i \in DOMAIN last.entity.attrs :
            (last.entity.attrs[i].data_type = "boolean" /\ last.entity.attrs[i].raises = "") =>
                /\ last.raised = "" => last.entity.attrs[i].name \in PropertiesList(objs[1])
                /\ last.entity.attrs[i].name \in PropertiesList(objs[1]) =>
                      objs[1].Props[last.entity.attrs[i].name].type = "App::PropertyBool"

(***************************************************************************)
(* SpecCold: besides the requests made with the handle of the project      *)
(* object, requests are made with a handle of the same file opened         *)
(* separately, which no object of a document references.                   *)
(***************************************************************************)
\* the Proxy as get_cache and set_cache see it for a handle that is not the
\* one it holds: o.Proxy.ifcfile == ifcfile is false
seen_from_other_handle(px) == [px EXCEPT !.ifcfile = FALSE]

\* the Proxy after the call: what the call left of it, holding its handle
back_to_own_handle(px, before) == [px EXCEPT !.ifcfile = before.ifcfile]

ColdLast(op, elements, cached, valid, call) ==
    [handle |-> "other"] @@ GeomLast(op, 0, elements, cached, valid, "", "", call)

GetShapeCold(elements, cached, valid) ==
    /\ ncalls < MaxColdCalls
    /\ \E used \in {LiveIds(proxy, objs)} :
       \E r \in {get_shape(ifc, seen_from_other_handle(proxy), used, elements, cached, valid)} :
           /\ proxy' = back_to_own_handle(r.px, proxy)
           /\ last' = ColdLast("get_shape", elements, cached, valid, r)
    /\ ncalls' = ncalls + 1
    /\ UNCHANGED <<disk, ifc, objs, args>>

GetCoinCold(elements, cached, valid) ==
    /\ ncalls < MaxColdCalls
    /\ \E used \in {LiveIds(proxy, objs)} :
       \E r \in {get_coin(ifc, seen_from_other_handle(proxy), used, elements, cached, valid)} :
           /\ proxy' = back_to_own_handle(r.px, proxy)
           /\ last' = ColdLast("get_coin", elements, cached, valid, r)
    /\ ncalls' = ncalls + 1
    /\ UNCHANGED <<disk, ifc, objs, args>>

NextCold ==
    \/ \E elements \in ElementLists(ifc), cached, valid \in BOOLEAN :
           GetShape(elements, cached, valid)
    \/ \E elements \in ElementLists(ifc), cached, valid \in BOOLEAN :
           GetCoin(elements, cached, valid)
    \/ \E elements \in ElementLists(ifc), cached, valid \in BOOLEAN :
           GetShapeCold(elements, cached, valid)
    \/ \E elements \in ElementLists(ifc), cached, valid \in BOOLEAN :
           GetCoinCold(elements, cached, valid)

SpecCold == InitGeom /\ [][NextCold]_vars

(***************************************************************************)
(* Claims on the cold cache (SpecCold).                                    *)
(***************************************************************************)
\* the last call used a handle that no object references
ColdCall == "handle" \in DOMAIN last

\* the requested entities that have a representation, in the order the
\* kernel is given them
ToGenerate == KeepIn(Requested, {e \in Range(Requested) : has_representation(ifc, e)})

\* the shapes or nodes the last call returned
ColdReturned == IF last.op = "get_coin" THEN ReturnedNodes ELSE ReturnedShapes

\* C23: a get_shape or get_coin call with a handle that no object of a
\* loaded document references finds an empty cache (every entity that is
\* left to process goes to the kernel, also with cached=True), completes
\* without raising and, when the kernel can process them, returns the
\* geometry of the entities, and leaves the cache of the document, which
\* belongs to another handle, as it was.
C23_ColdCacheStillWorks ==
    ColdCall =>
        /\ last.raised = ""
        /\ proxy = last.pre
        /\ (last.op = "get_shape" /\ Requested # <<>>) =>
              last.call.invoked /\ last.call.include = Requested
        /\ (last.op = "get_coin" /\ ToGenerate # <<>>) =>
              last.call.invoked /\ last.call.include = ToGenerate
        /\ (ToGenerate # <<>> /\ last.valid) =>
              /\ last.call.shape.kind \in {"shape", "compound", "separator"}
              /\ {ColdReturned[i].geom : i \in DOMAIN ColdReturned} = Range(ToGenerate)

\* a cached request for the wall and the window with a separate handle,
\* while the document's cache holds the wall's node: both are generated
C23_Witness ==
    /\ ColdCall
    /\ last.op = "get_coin"
    /\ last.cached /\ last.valid
    /\ last.elements = <<4, 6>>
    /\ IntKey(4) \in DOMAIN last.pre.ifccache.Coin
    /\ last.call.include = <<4, 6>>
    /\ Len(ReturnedNodes) = 2
    /\ proxy = last.pre

(***************************************************************************)
(* Claims on the whole tree of a project (SpecTree).                       *)
(***************************************************************************)
\* C24: after any sequence of create_children calls, no two objects of the
\* project, under the same or different parents, have the same StepId.
C24_StepIdsUniqueInTree ==
    \A i, j \in DOMAIN objs :
        i # j => StepIdOf(objs[i]) # StepIdOf(objs[j])

ListedChildren(g, p) ==
    g.IsDecomposedBy[p] \o g.ContainsElements[p] \o g.HasOpenings[p] \o g.HasFillings[p]

\* the entities of the file that are listed as child of more than one entity
MultiParent(g) ==
    {e \in g.ents :
        \E p, q \in g.ents :
            /\ p # q
            /\ InSeq(e, ListedChildren(g, p))
            /\ InSeq(e, ListedChildren(g, q))}

\* what the test of line 91 gives: StepIds are unique in the tree of a file
\* in which no entity is listed under two parents
C24_UniqueWhenSingleParent ==
    MultiParent(ifc) = {} => C24_StepIdsUniqueInTree

(***************************************************************************)
(* SpecRecur: create_children(obj, ifcfile, recursive=True, ...) followed  *)
(* one step at a time.  args.stack holds the loops that are open, the      *)
(* innermost first: parent is the object whose Group is filled, todo the   *)
(* entities still to visit, depth the number of the call frame that runs   *)
(* the loop.  The loop of create_children calls create_child one frame     *)
(* deeper; create_child runs the loop over the buildings of a site itself  *)
(* and calls create_children one frame deeper again.  A call that would    *)
(* need more than RecursionLimit frames raises RecursionError.             *)
(***************************************************************************)
\* the building and the wall decompose each other
GraphCycle ==
    [ents |-> {1, 2, 3, 4},
     IsDecomposedBy |-> Rel(1 :> <<2>> @@ 2 :> <<3>> @@ 3 :> <<4>> @@ 4 :> <<3>>),
     ContainsElements |-> Rel(<<>>),
     HasOpenings |-> Rel(<<>>),
     HasFillings |-> Rel(<<>>),
     Representation |-> {}]

RecurGraphs == {GraphScenario, GraphShared, GraphFull, GraphCycle}

Running == args # NoArgs

TopFrame == Head(args.stack)

\* the next call cannot be made: the interpreter is out of frames
OutOfFrames ==
    \/ TopFrame.depth > RecursionLimit
    \/ TopFrame.todo # <<>> /\ TopFrame.depth + 1 > RecursionLimit

InitRecur ==
    /\ ifc \in RecurGraphs
    /\ objs = create_document(ifc, "model.ifc", 0, 0).objs
    /\ proxy = NoProxy
    /\ args = NoArgs
    /\ last = NoLast
    /\ ncalls = 0
    /\ disk = NoDisk

\* the call is made: the loop of line 105 over get_children(obj, ...)
CallChildren(node, only_structure, assemblies) ==
    /\ ~Running
    /\ node \in DOMAIN objs
    /\ ncalls < MaxRecurCalls
    /\ args' = [fn |-> "create_children",
                stack |-> <<[parent |-> node, depth |-> 1,
                             todo |-> get_children(ifc, objs[node], only_structure, assemblies)]>>]
    /\ last' = [op |-> "running", node |-> node,
                flags |-> Flags(TRUE, only_structure, assemblies),
                result |-> <<>>, raised |-> "", pre |-> objs]
    /\ ncalls' = ncalls + 1
    /\ UNCHANGED <<disk, ifc, objs, proxy>>

\* create_child for an entity the parent has already: line 91 is false
SkipChild ==
    /\ Running
    /\ ~OutOfFrames
    /\ TopFrame.todo # <<>>
    /\ has_child(objs, TopFrame.parent, Head(TopFrame.todo))
    /\ args' = [args EXCEPT !.stack[1].todo = Tail(TopFrame.todo)]
    /\ UNCHANGED <<disk, ifc, objs, proxy, last, ncalls>>

\* create_child for a new entity: lines 92-94, then the loops of lines 98
\* and 101 are opened on the new child
CreateChild ==
    /\ Running
    /\ ~OutOfFrames
    /\ TopFrame.todo # <<>>
    /\ ~has_child(objs, TopFrame.parent, Head(TopFrame.todo))
    /\ \E element \in {Head(TopFrame.todo)} :
       \E made \in {create_object(Entity(element), HoldShapeOf(objs[TopFrame.parent]))} :
           IF made.raised # ""
           THEN /\ objs' = Append(objs, made.obj)
                /\ args' = NoArgs
                /\ last' = [last EXCEPT !.op = "create_children", !.raised = made.raised]
           ELSE \E st \in {attach([objs |-> objs, result |-> last.result, raised |-> ""],
                                  TopFrame.parent, made.obj)} :
                \E child \in {Len(objs) + 1} :
                    /\ objs' = st.objs
                    /\ last' = [last EXCEPT !.result = st.result]
                    /\ args' = [args EXCEPT !.stack =
                          (IF is_a(element, "IfcSite")
                           THEN <<[parent |-> child, depth |-> TopFrame.depth + 1,
                                   todo |-> site_buildings(ifc, made.obj, last.flags)]>>
                           ELSE <<>>)
                          \o <<[parent |-> child, depth |-> TopFrame.depth + 2,
                                todo |-> get_children(ifc, made.obj, last.flags.only_structure,
                                                      last.flags.assemblies)]>>
                          \o <<[TopFrame EXCEPT !.todo = Tail(TopFrame.todo)]>>
                          \o Tail(args.stack)]
    /\ UNCHANGED <<disk, ifc, proxy, ncalls>>

\* a loop is through: its frame returns, the outermost one to the caller
ReturnLoop ==
    /\ Running
    /\ ~OutOfFrames
    /\ TopFrame.todo = <<>>
    /\ IF Len(args.stack) = 1
       THEN /\ args' = NoArgs
            /\ last' = [last EXCEPT !.op = "create_children"]
       ELSE /\ args' = [args EXCEPT !.stack = Tail(args.stack)]
            /\ UNCHANGED last
    /\ UNCHANGED <<disk, ifc, objs, proxy, ncalls>>

\* the interpreter refuses the next frame: RecursionError reaches the caller,
\* the objects made so far stay in the document
RecursionError ==
    /\ Running
    /\ OutOfFrames
    /\ args' = NoArgs
    /\ last' = [last EXCEPT !.op = "create_children", !.raised = "RecursionError"]
    /\ UNCHANGED <<disk, ifc, objs, proxy, ncalls>>

StepRecur == SkipChild \/ CreateChild \/ ReturnLoop \/ RecursionError

NextRecur ==
    \/ \E node \in 1..(MaxElems + 2), only_structure, assemblies \in BOOLEAN :
           CallChildren(node, only_structure, assemblies)
    \/ SkipChild
    \/ CreateChild
    \/ ReturnLoop
    \/ RecursionError

SpecRecur == InitRecur /\ [][NextRecur]_vars

\* the call runs on the caller's thread: while it is running its next step
\* is taken
SpecRecurLive == SpecRecur /\ WF_vars(StepRecur)

(***************************************************************************)
(* Claims on termination (SpecRecur, SpecRecurLive).                       *)
(***************************************************************************)
\* the last call has returned to its caller without an exception
Returned == ~Running /\ last.op = "create_children" /\ last.raised = ""

RECURSIVE ReachableFrom(_, _, _)
ReachableFrom(g, S, fuel) ==
    IF fuel = 0 THEN S
    ELSE ReachableFrom(g, S \cup UNION {Range(ListedChildren(g, e)) : e \in S}, fuel - 1)

\* no entity reachable from e by the four kinds of edge reaches itself
AcyclicFrom(g, e) ==
    \A x \in ReachableFrom(g, {e}, Cardinality(g.ents)) :
        x \notin ReachableFrom(g, Range(ListedChildren(g, x)), Cardinality(g.ents))

\* C25: a create_children call with recursive=True terminates on every
\* finite source graph: once made, it returns to its caller.
C25_RecursiveCallReturns == Running ~> Returned

\* the part of it that holds: on a graph that is acyclic from the starting
\* node, the frames never run out
C25_NoRecursionErrorWhenAcyclic ==
    (last # NoLast /\ AcyclicFrom(ifc, StepIdOf(last.pre[last.node])))
        => last.raised # "RecursionError"

\* and the call returns
C25_ReturnsWhenAcyclic ==
    (Running /\ AcyclicFrom(ifc, StepIdOf(last.pre[last.node]))) ~> Returned

\* a call that has returned has left the document and the result list that
\* create_children, taken as one step, gives
C25_StepsAgreeWithCreateChildren ==
    (Returned /\ AcyclicFrom(ifc, StepIdOf(last.pre[last.node]))) =>
        /\ objs = create_children(ifc, last.pre, last.node, TRUE,
                                  last.flags.only_structure, last.flags.assemblies).objs
        /\ last.result = create_children(ifc, last.pre, last.node, TRUE,
                                         last.flags.only_structure, last.flags.assemblies).result

\* the recursive call on the project of the cyclic file has run out of frames
C25_WitnessRecursionError ==
    /\ ~Running
    /\ ifc = GraphCycle
    /\ last # NoLast
    /\ last.raised = "RecursionError"
    /\ Len(objs) > Cardinality(ifc.ents)

(***************************************************************************)
(* Claims on the recursive expansion of a node that has children (SpecTree)*)
(***************************************************************************)
\* the objects below o in the tree
RECURSIVE Descendants(_, _, _)
Descendants(os, S, fuel) ==
    IF fuel = 0 THEN S
    ELSE Descendants(os, S \cup UNION {Range(os[o].Group) : o \in S}, fuel - 1)

SubtreeOf(o) == Descendants(objs, {o}, Len(objs))

\* the last call was create_children(node, recursive=True) with the default
\* only_structure and assemblies, and it returned
FullRecursiveCall ==
    /\ last.op = "create_children"
    /\ last.flags = Flags(TRUE, FALSE, TRUE)
    /\ last.raised = ""

\* C26: after create_children(node, recursive=True) with default flags has
\* returned, can_expand is false for node and for every descendant of node,
\* also below the children node had before the call.
C26_SubtreeFullyExpanded ==
    FullRecursiveCall =>
        \A d \in SubtreeOf(last.node) : ~can_expand(ifc, objs, d)

\* what the recursion of lines 100-101 gives: nothing is left to expand
\* below the children the call created
C26_NewChildrenFullyExpanded ==
    FullRecursiveCall =>
        \A c \in Range(last.result) :
            \A d \in SubtreeOf(c) : ~can_expand(ifc, objs, d)

\* and node itself has all its children
C26_NodeFullyExpanded ==
    FullRecursiveCall => ~can_expand(ifc, objs, last.node)

(***************************************************************************)
(* Claims on what get_shape and get_coin leave behind (SpecGeom).          *)
(***************************************************************************)
\* the instances get_shape handed to its caller: the shape, the compound,
\* or the shapes of the list
HandedShapes == last.call.shape.items

CachedShapeIds == {ShapeCacheNow[k].id : k \in DOMAIN ShapeCacheNow}

\* C27: no instance handed to the caller by get_shape is the instance stored
\* in the Shape cache, on the miss path as well as on the hit path.
C27_ReturnedIsNotTheCached ==
    last.op = "get_shape" =>
        \A i \in DOMAIN HandedShapes : HandedShapes[i].id \notin CachedShapeIds

\* what holds: a compound handed to the caller is a new instance
C27_CompoundIsNotCached ==
    (last.op = "get_shape" /\ last.call.shape.kind = "compound") =>
        \A i \in DOMAIN HandedShapes : HandedShapes[i].id \notin CachedShapeIds

\* the last operation was a get_shape or get_coin call that started the
\* progress indicator
StartedProgress ==
    /\ last.op \in {"get_shape", "get_coin"}
    /\ last.call.progress # "none"

\* C28: every get_shape or get_coin call that starts the progress indicator
\* has stopped it when it returns, on every return path.
C28_ProgressStoppedOnReturn ==
    StartedProgress => last.call.progress = "stopped"

\* what holds: the indicator is stopped on the path where the iterator
\* initializes
C28_StoppedWhenIteratorValid ==
    (StartedProgress /\ last.valid /\ can_initialize(ifc, last.call.include)) =>
        last.call.progress = "stopped"

====
